---------------------------- MODULE Spec2Model ----------------------------
(***************************************************************************)
(* Model of src/src/components/Experience/Experience.tsx: the Experience   *)
(* root (turbo flag, pointer target), MousePlane, DynamicEnvMap, CameraRig *)
(* and SpaceshipController.                                                *)
(*                                                                         *)
(* JavaScript numbers are modelled in fixed point: a real r is the integer *)
(* r * Scale, and every product is truncated toward zero to that grid.     *)
(* Angles are radians * Scale.  All intermediate values stay below 2^31.   *)
(***************************************************************************)
EXTENDS Integers, Sequences, FiniteSets, TLC

VARIABLES
    \* Experience (lines 187-210)
    turbo,            \* useState(0)
    mousePoint,       \* useState(new Vector3(0,0,0)), <<x, y, z>>
    \* history of the input events (not program state)
    ev,               \* the last input event and the state it found
    lastSpace,        \* "none", "keydown" or "keyup": the last Space event
    pointAtPress,     \* mousePoint when turbo last went 0 -> 1
    inputs,           \* number of input events delivered so far
    sinceInput,       \* frames run since the last input event (capped)
    \* DynamicEnvMap (lines 11-64)
    envMounted,       \* the component is mounted
    pmrem,            \* the generator useMemo currently returns
    pmremsMade,       \* number of generators constructed so far
    alivePmrems,      \* generators not yet disposed
    generated,        \* number of maps pmrem.fromScene has produced
    aliveMaps,        \* maps produced and not yet disposed
    previousEnvMap,   \* previousEnvMap.current (0 is null)
    envMap,           \* the callback's local const envMap (0 outside it)
    materialEnvMap,   \* map whose texture the spaceship materials hold
    shipVisible,      \* obj.visible of the object named 'spaceship'
    hasStdMaterial,   \* the spaceship holds MeshStandardMaterial meshes
    envPc,            \* position inside the useFrame callback
    atFrameEnd,       \* the last step taken ended a frame callback
    pendingCleanup,   \* generator whose effect cleanup React has yet to run
    \* CameraRig (lines 66-104)
    camPos,           \* camera.position
    camLook,          \* the point last given to camera.lookAt
    camFov,           \* perspCamera.fov
    \* SpaceshipController (lines 125-185)
    spaceshipRef,     \* spaceshipRef.current is set
    translateY,
    translateAcceleration,
    angleZ,
    angleAcceleration,
    pitchAngle,
    pitchAcceleration,
    positionY,        \* spaceshipRef.current.position.y
    rotation,         \* spaceshipRef.current.rotation, <<x, y, z>>
    fed,              \* what the last frame fed to the three springs
    \* reference integrators run beside the controller
    lawFrames,
    ref,
    orig

inputVars  == <<turbo, mousePoint, ev, lastSpace, pointAtPress>>
clockVars  == <<inputs, sinceInput>>
envVars    == <<envMounted, pmrem, pmremsMade, alivePmrems, generated,
                aliveMaps, previousEnvMap, envMap, materialEnvMap,
                shipVisible, hasStdMaterial, envPc, atFrameEnd,
                pendingCleanup>>
camVars    == <<camPos, camLook, camFov>>
shipVars   == <<spaceshipRef, translateY, translateAcceleration, angleZ,
                angleAcceleration, pitchAngle, pitchAcceleration,
                positionY, rotation, fed>>
lawVars    == <<lawFrames, ref, orig>>
vars       == <<inputVars, clockVars, envVars, camVars, shipVars, lawVars>>

---------------------------------------------------------------------------
(* Bounds of the exploration *)

MaxEnvFrames == 4      \* frame callbacks of DynamicEnvMap per run
MaxRenderers == 3      \* renderers (gl) DynamicEnvMap sees per run
MaxCamInputs == 2      \* key events per run of the camera specification
MaxInputs    == 3      \* input events per run of the steering specification
MidFlight    == 25     \* frames after an input at which the next may arrive
SettleFrames == 500    \* frames counted after an input
MaxLawFrames == 4      \* frames per run of the integrator comparison
MaxLawInputs == 2      \* input events per run of the integrator comparison

---------------------------------------------------------------------------
(* Fixed-point arithmetic *)

Scale == 1000 * 1000

(* In the helpers below an argument that is used more than once is first  *)
(* bound to a name ranging over a one-element set, which evaluates it once. *)

Abs(x) == IF x < 0 THEN -x ELSE x

Max(a, b) == IF a >= b THEN a ELSE b

Min(a, b) == IF a <= b THEN a ELSE b

\* Math.max(lo, Math.min(hi, x))
Clamp(lo, hi, x) == CHOOSE r \in { Max(lo, Min(hi, v)) : v \in {x} } : TRUE

\* a / b truncated toward zero, b > 0
TDiv(a, b) ==
    CHOOSE r \in { IF v >= 0 THEN v \div b ELSE -((-v) \div b) : v \in {a} } : TRUE

\* x * (n / d) on the grid, for |x| * n < 2^31
Mul(x, n, d) == TDiv(x * n, d)

\* the product of two fixed-point numbers, |a|, |b| <= 2 * Scale
FMul(a, b) ==
    CHOOSE r \in { TDiv((u \div 1000) * v, 1000) + TDiv((u % 1000) * v, Scale) :
                       u \in {Abs(a)}, v \in {IF a < 0 THEN -b ELSE b} } : TRUE

RECURSIVE SqrtIter(_, _)
SqrtIter(n, x) ==
    CHOOSE r \in { IF y >= x THEN x ELSE SqrtIter(n, y) :
                       y \in {(x + n \div x) \div 2} } : TRUE

\* floor of the square root, 0 <= n < 2^30
ISqrt(n) ==
    CHOOSE r \in { IF m = 0 THEN 0 ELSE SqrtIter(m, 32768) : m \in {n} } : TRUE

Pi == 3141593

\* Math.asin on |x| <= Scale / 2: x + x^3/6 + 3x^5/40 + 5x^7/112 + 35x^9/1152,
\* by Horner's rule in y = x^2
AsinSeries(x) ==
    CHOOSE r \in
        { v + FMul(v, FMul(y, Scale \div 6 + FMul(y, Mul(Scale, 3, 40)
                + FMul(y, Mul(Scale, 5, 112) + FMul(y, Mul(Scale, 35, 1152)))))) :
              v \in {x}, y \in {FMul(x, x)} } : TRUE

\* sqrt(u / 2) for 0 <= u <= Scale / 2, on a grid of 1 / 64000
HalfRoot(u) == (ISqrt((u \div 2) * 4096) * 125) \div 8

\* Math.acos(c), |c| <= Scale; beyond 1/2 by acos(c) = 2 asin(sqrt((1 - c) / 2))
Acos(c) ==
    CHOOSE r \in
        { IF Abs(v) <= Scale \div 2 THEN Pi \div 2 - AsinSeries(v)
          ELSE IF v > 0
               THEN 2 * AsinSeries(HalfRoot(Scale - v))
               ELSE Pi - 2 * AsinSeries(HalfRoot(Scale + v)) :
              v \in {c} } : TRUE

---------------------------------------------------------------------------
(* DynamicEnvMap *)

\* the materials keep the texture of the map about to be disposed
AppliedEnvMapStale(new, prev) == prev

\* line 37: the map whose texture the materials receive
AppliedEnvMap(new, prev) == new

\* the previous map is dropped without dispose()
DisposePreviousLeak(alive, prev) == alive

\* lines 47-49: previousEnvMap.current.dispose() when it is set
DisposePrevious(alive, prev) == alive \ {prev}

\* a cleanup that disposes the generator only
CleanupMapsNone(alive, prev) == alive

\* lines 56-58: the effect cleanup's dispose of previousEnvMap.current
CleanupMaps(alive, prev) == alive \ {prev}

\* line 59: pmrem.dispose() of the generator(s) whose cleanup runs
CleanupPmrems(alive, gens) == alive \ gens

\* lines 16-27: hide the spaceship, clear the background, pmrem.fromScene
EnvFrameRender ==
    /\ envMounted /\ envPc = "idle"
    /\ generated < MaxEnvFrames
    /\ shipVisible' = FALSE
    /\ generated' = generated + 1
    /\ envMap' = generated + 1
    /\ aliveMaps' = aliveMaps \cup {generated + 1}
    /\ envPc' = "rendered"
    /\ atFrameEnd' = FALSE
    /\ UNCHANGED <<envMounted, pmrem, pmremsMade, alivePmrems, previousEnvMap,
                   materialEnvMap, hasStdMaterial, pendingCleanup>>
    /\ UNCHANGED <<inputVars, clockVars, camVars, shipVars, lawVars>>

\* lines 29-44: restore the scene, point the materials at the new map
EnvFrameApply ==
    /\ envPc = "rendered"
    /\ shipVisible' = TRUE
    /\ materialEnvMap' = IF hasStdMaterial
                         THEN AppliedEnvMap(envMap, previousEnvMap)
                         ELSE materialEnvMap
    /\ envPc' = "applied"
    /\ UNCHANGED <<envMounted, pmrem, pmremsMade, alivePmrems, generated,
                   aliveMaps, previousEnvMap, envMap, hasStdMaterial,
                   atFrameEnd, pendingCleanup>>
    /\ UNCHANGED <<inputVars, clockVars, camVars, shipVars, lawVars>>

\* lines 46-50: dispose the previous map, remember the new one
EnvFrameSwap ==
    /\ envPc = "applied"
    /\ aliveMaps' = DisposePrevious(aliveMaps, previousEnvMap)
    /\ previousEnvMap' = envMap
    /\ envMap' = 0
    /\ envPc' = "idle"
    /\ atFrameEnd' = TRUE
    /\ UNCHANGED <<envMounted, pmrem, pmremsMade, alivePmrems, generated,
                   materialEnvMap, shipVisible, hasStdMaterial, pendingCleanup>>
    /\ UNCHANGED <<inputVars, clockVars, camVars, shipVars, lawVars>>

\* lines 12-13, 61: gl changed, useMemo builds a new generator and the
\* effect of the old one is queued for cleanup
RendererChange ==
    /\ envMounted /\ envPc = "idle"
    /\ pendingCleanup = 0
    /\ pmremsMade < MaxRenderers
    /\ pmremsMade' = pmremsMade + 1
    /\ pmrem' = pmremsMade + 1
    /\ alivePmrems' = alivePmrems \cup {pmremsMade + 1}
    /\ pendingCleanup' = pmrem
    /\ atFrameEnd' = FALSE
    /\ UNCHANGED <<envMounted, generated, aliveMaps, previousEnvMap, envMap,
                   materialEnvMap, shipVisible, hasStdMaterial, envPc>>
    /\ UNCHANGED <<inputVars, clockVars, camVars, shipVars, lawVars>>

\* lines 55-60, run for the effect of the replaced generator
EffectCleanup ==
    /\ envMounted /\ envPc = "idle"
    /\ pendingCleanup # 0
    /\ aliveMaps' = CleanupMaps(aliveMaps, previousEnvMap)
    /\ alivePmrems' = CleanupPmrems(alivePmrems, {pendingCleanup})
    /\ pendingCleanup' = 0
    /\ atFrameEnd' = FALSE
    /\ UNCHANGED <<envMounted, pmrem, pmremsMade, generated, previousEnvMap,
                   envMap, materialEnvMap, shipVisible, hasStdMaterial, envPc>>
    /\ UNCHANGED <<inputVars, clockVars, camVars, shipVars, lawVars>>

\* lines 53-61: unmount runs every cleanup still owed, the current one last
Unmount ==
    /\ envMounted /\ envPc = "idle"
    /\ envMounted' = FALSE
    /\ aliveMaps' = CleanupMaps(aliveMaps, previousEnvMap)
    /\ alivePmrems' = CleanupPmrems(alivePmrems, {pendingCleanup, pmrem})
    /\ pendingCleanup' = 0
    /\ atFrameEnd' = FALSE
    /\ UNCHANGED <<pmrem, pmremsMade, generated, previousEnvMap, envMap,
                   materialEnvMap, shipVisible, hasStdMaterial, envPc>>
    /\ UNCHANGED <<inputVars, clockVars, camVars, shipVars, lawVars>>

---------------------------------------------------------------------------
(* Experience: the turbo flag and the pointer target; MousePlane *)

\* e.code of the key events delivered
KeyCodes == {"Space", "KeyW", "ShiftLeft"}

\* event.point of the pointer events, <<y, z>>: points of the plane of
\* line 117 (20 x 20, turned -0.1 pi about X) at plane heights 10, 0.5, -6
PointerPoints ==
    { <<9510565, -3090170>>, <<475528, -154508>>, <<-5706339, 1854102>> }

\* lines 191-195
TurboAfterKeyDown(code, t) == IF code = "Space" THEN 1 ELSE t

\* a key-up handler without the e.code test
TurboAfterAnyKeyUp(code, t) == 0

\* lines 197-201
TurboAfterKeyUp(code, t) == IF code = "Space" THEN 0 ELSE t

\* a pointer handler without the turbo guard of line 111
MousePointUnguarded(t, mp, p) == <<-3 * Scale, p[1], p[2]>>

\* lines 110-114: handlePointerMove, then setMousePoint
MousePointAfterMove(t, mp, p) ==
    IF t > 0 THEN mp ELSE <<-3 * Scale, p[1], p[2]>>

Event(type, code, p) ==
    [type |-> type, code |-> code, y |-> p[1], z |-> p[2],
     turboBefore |-> turbo, mouseBefore |-> mousePoint]

\* lines 191-195, delivered by the listener of line 204
KeyDown(code) ==
    /\ turbo' = TurboAfterKeyDown(code, turbo)
    /\ ev' = Event("keydown", code, <<0, 0>>)
    /\ lastSpace' = IF code = "Space" THEN "keydown" ELSE lastSpace
    /\ pointAtPress' = IF code = "Space" /\ turbo = 0 THEN mousePoint
                       ELSE pointAtPress
    /\ UNCHANGED mousePoint

\* lines 197-201, delivered by the listener of line 205
KeyUp(code) ==
    /\ turbo' = TurboAfterKeyUp(code, turbo)
    /\ ev' = Event("keyup", code, <<0, 0>>)
    /\ lastSpace' = IF code = "Space" THEN "keyup" ELSE lastSpace
    /\ UNCHANGED <<mousePoint, pointAtPress>>

\* lines 110-114 with onMove = setMousePoint (line 239)
PointerMove(p) ==
    /\ mousePoint' = MousePointAfterMove(turbo, mousePoint, p)
    /\ ev' = Event("pointermove", "", p)
    /\ UNCHANGED <<turbo, lastSpace, pointAtPress>>

---------------------------------------------------------------------------
(* CameraRig *)

basePosition  == <<-4 * Scale, 4 * Scale, 6 * Scale>>
baseLookAt    == <<0, 0, 0>>
turboPosition == <<5 * Scale, 1 * Scale, 1 * Scale>>
turboLookAt   == <<-5 * Scale, 0, 0>>

\* x * (n / d) truncated toward zero, without forming x * n
MulWide(x, n, d) ==
    LET q == TDiv(x, d)
    IN  q * n + TDiv((x - q * d) * n, d)

\* an interpolation factor above 1
LerpAxisPast(x, t) == x + Mul(t - x, 21, 20)

\* line 83, Vector3.lerp(v, 0.05) per axis: x += (v.x - x) * alpha
LerpAxis(x, t) == x + Mul(t - x, 1, 20)

\* line 90, MathUtils.lerp(x, y, 0.02): (1 - t) * x + t * y
LerpFov(x, y) == MulWide(x, 49, 50) + Mul(y, 1, 50)

\* line 79
TargetPos(t) == IF t # 0 THEN turboPosition ELSE basePosition

\* line 80
TargetLook(t) == IF t # 0 THEN turboLookAt ELSE baseLookAt

\* line 89
TargetFov(t) == 40 * Scale + t * 15 * Scale

CamPosAfter(pos, t) == [i \in 1..3 |-> LerpAxis(pos[i], TargetPos(t)[i])]

CamFovAfter(fov, t) == LerpFov(fov, TargetFov(t))

\* lines 78-92
CameraRigFrame ==
    /\ camPos' = CamPosAfter(camPos, turbo)
    /\ camLook' = TargetLook(turbo)
    /\ camFov' = CamFovAfter(camFov, turbo)

\* a further frame would change nothing
CamSettled ==
    /\ camPos = CamPosAfter(camPos, turbo)
    /\ camLook = TargetLook(turbo)
    /\ camFov = CamFovAfter(camFov, turbo)

---------------------------------------------------------------------------
(* SpaceshipController *)

\* the vertical clamp the comment of line 144 describes, +-3
BoundedYSymmetric(y) == Clamp(-3 * Scale, 3 * Scale, y)

\* line 144
BoundedY(y) == Clamp(-3 * Scale, 1 * Scale, y)

\* line 148
TargetPitch(z) == Mul(z, 1, 2)

\* the damping of line 176 left out
DampYawNone(a) == a

\* lines 153, 156, 176: acceleration damping
DampTranslate(a) == Mul(a, 19, 20)

DampPitch(a) == Mul(a, 17, 20)

DampYaw(a) == Mul(a, 3, 4)

\* lines 160-162: Vector3.normalize(), divideScalar(length() || 1); the
\* length is taken on a 1/1000 grid
Normalize(v) ==
    CHOOSE r \in
        UNION { { [i \in 1..3 |-> TDiv(m[i] * 100000, IF len = 0 THEN 1 ELSE len) * 10] :
                      len \in {ISqrt(m[1] * m[1] + m[2] * m[2] + m[3] * m[3])} } :
                  m \in {[i \in 1..3 |-> TDiv(v[i], 1000)]} } : TRUE

\* line 165: Vector3.dot
Dot(a, b) ==
    CHOOSE r \in { FMul(u[1], v[1]) + FMul(u[2], v[2]) + FMul(u[3], v[3]) :
                       u \in {a}, v \in {b} } : TRUE

\* the angle without the quarter turn taken off
YawAngleRaw(dirCos) == Acos(dirCos)

\* line 166
YawAngle(dirCos) == Acos(dirCos) - Pi \div 2

\* line 169
BoundedAngle(angle) == Clamp(-(Pi \div 4), Pi \div 4, angle)

\* the pitch applied as integrated
BoundedPitchNone(p) == p

\* line 170
BoundedPitch(p) == Clamp(-(Pi \div 6), Pi \div 6, p)

\* lines 137-157: the vertical and pitch springs, and the turbo half of
\* the yaw spring
SpringsAfter(s, mp, t) ==
    LET boundedY == BoundedY(mp[2])
        targetPitch == TargetPitch(mp[3])
        \* lines 137-150
        tAcc1 == IF t > 0
                 THEN s.translateAcceleration + Mul(0 - s.translateY, 1, 100)
                 ELSE s.translateAcceleration + Mul(boundedY - s.translateY, 1, 500)
        aAcc1 == IF t > 0
                 THEN s.angleAcceleration + Mul(0 - s.angleZ, 1, 100)
                 ELSE s.angleAcceleration
        pAcc1 == IF t > 0
                 THEN s.pitchAcceleration + Mul(0 - s.pitchAngle, 1, 100)
                 ELSE s.pitchAcceleration + Mul(targetPitch - s.pitchAngle, 1, 100)
        \* lines 153-157
        tAcc2 == DampTranslate(tAcc1)
        pAcc2 == DampPitch(pAcc1)
    IN  [translateY |-> s.translateY + tAcc2, translateAcceleration |-> tAcc2,
         pitchAngle |-> s.pitchAngle + pAcc2, pitchAcceleration |-> pAcc2,
         angleAcceleration |-> aAcc1,
         boundedY |-> boundedY, targetPitch |-> targetPitch]

\* lines 160-169: the yaw angle toward mp from height ty
YawAfter(mp, ty) ==
    LET diff == <<mp[1] - 0, mp[2] - ty, mp[3] - 0>>
    IN  CHOOSE r \in { [angle |-> YawAngle(dirCos),
                        boundedAngle |-> BoundedAngle(YawAngle(dirCos)),
                        zeroDir |-> diff = <<0, 0, 0>>] :
                       dirCos \in {Dot(Normalize(diff), <<0, Scale, 0>>)} } : TRUE

\* lines 170-181: the manual half of the yaw spring and the transform
Applied(s, mp, t, v, w) ==
    LET boundedPitch == BoundedPitch(v.pitchAngle)
        \* lines 173-177
        aAcc2 == IF t = 0
                 THEN v.angleAcceleration + Mul(w.boundedAngle - s.angleZ, 1, 100)
                 ELSE v.angleAcceleration
        aAcc3 == DampYaw(aAcc2)
    IN  [translateY |-> v.translateY,
         translateAcceleration |-> v.translateAcceleration,
         angleZ |-> s.angleZ + aAcc3, angleAcceleration |-> aAcc3,
         pitchAngle |-> v.pitchAngle, pitchAcceleration |-> v.pitchAcceleration,
         \* lines 180-181
         positionY |-> v.translateY,
         rotation |-> <<boundedPitch, -(Pi \div 2), s.angleZ + aAcc3>>,
         fed |-> [n |-> Min(s.fed.n + 1, 2), turbo |-> t, mouse |-> mp,
                  y |-> IF t > 0 THEN 0 ELSE v.boundedY,
                  pitch |-> IF t > 0 THEN 0 ELSE v.targetPitch,
                  yaw |-> IF t > 0 THEN 0 ELSE w.boundedAngle,
                  angle |-> w.angle,
                  prevYaw |-> s.fed.yaw,
                  zeroDir |-> w.zeroDir]]

\* lines 134-182: one useFrame callback, from the refs s, the props mp and
\* t, to the refs, the transform and the values fed to the springs
ControllerStep(s, mp, t) ==
    CHOOSE r \in UNION { { Applied(s, mp, t, v, w) :
                              w \in {YawAfter(mp, v.translateY)} } :
                          v \in {SpringsAfter(s, mp, t)} } : TRUE

Controller ==
    [translateY |-> translateY, translateAcceleration |-> translateAcceleration,
     angleZ |-> angleZ, angleAcceleration |-> angleAcceleration,
     pitchAngle |-> pitchAngle, pitchAcceleration |-> pitchAcceleration,
     positionY |-> positionY, rotation |-> rotation, fed |-> fed]

\* lines 134-182
SpaceshipControllerFrame ==
    IF ~spaceshipRef
    THEN UNCHANGED shipVars
    ELSE \E r \in {ControllerStep(Controller, mousePoint, turbo)} :
             /\ translateY' = r.translateY
             /\ translateAcceleration' = r.translateAcceleration
             /\ angleZ' = r.angleZ
             /\ angleAcceleration' = r.angleAcceleration
             /\ pitchAngle' = r.pitchAngle
             /\ pitchAcceleration' = r.pitchAcceleration
             /\ positionY' = r.positionY
             /\ rotation' = r.rotation
             /\ fed' = r.fed
             /\ UNCHANGED spaceshipRef

\* a further frame would change nothing
ShipSettled ==
    ~spaceshipRef \/ ControllerStep(Controller, mousePoint, turbo) = Controller

---------------------------------------------------------------------------
(* Initial state: every component mounted, no frame run, no event seen *)

Mounted(std) ==
    /\ turbo = 0
    /\ mousePoint = <<0, 0, 0>>
    /\ ev = [type |-> "none", code |-> "", y |-> 0, z |-> 0,
             turboBefore |-> 0, mouseBefore |-> <<0, 0, 0>>]
    /\ lastSpace = "none"
    /\ pointAtPress = <<0, 0, 0>>
    /\ inputs = 0
    /\ sinceInput = 0
    /\ envMounted = TRUE
    /\ pmrem = 1
    /\ pmremsMade = 1
    /\ alivePmrems = {1}
    /\ generated = 0
    /\ aliveMaps = {}
    /\ previousEnvMap = 0
    /\ envMap = 0
    /\ materialEnvMap = 0
    /\ shipVisible = TRUE
    /\ hasStdMaterial = std
    /\ envPc = "idle"
    /\ atFrameEnd = FALSE
    /\ pendingCleanup = 0
    /\ camPos = basePosition
    /\ camLook = baseLookAt
    /\ camFov = 40 * Scale
    /\ spaceshipRef = TRUE
    /\ translateY = 0
    /\ translateAcceleration = 0
    /\ angleZ = 0
    /\ angleAcceleration = 0
    /\ pitchAngle = 0
    /\ pitchAcceleration = 0
    /\ positionY = 0
    /\ rotation = <<0, 0, 0>>
    /\ fed = [n |-> 0, turbo |-> 0, mouse |-> <<0, 0, 0>>, y |-> 0, pitch |-> 0,
               yaw |-> 0, angle |-> 0, prevYaw |-> 0, zeroDir |-> FALSE]
    /\ lawFrames = 0
    /\ ref = [q \in {"y", "yaw", "pitch"} |-> [value |-> 0, rate |-> 0]]
    /\ orig = [q \in {"y", "yaw", "pitch"} |-> [value |-> 0, accel |-> 0, vel |-> 0]]

\* the spaceship of Spaceship.tsx carries MeshStandardMaterial meshes
Init == Mounted(TRUE)

\* DynamicEnvMap over a spaceship with or without such meshes
InitEnv == \E std \in BOOLEAN : Mounted(std)

---------------------------------------------------------------------------
(* DynamicEnvMap alone: frames, renderer changes, unmount *)

EnvNext ==
    \/ EnvFrameRender
    \/ EnvFrameApply
    \/ EnvFrameSwap
    \/ RendererChange
    \/ EffectCleanup
    \/ Unmount

SpecEnv == InitEnv /\ [][EnvNext]_vars

(* The input handlers alone *)

InputKeyDown ==
    /\ \E code \in KeyCodes : KeyDown(code)
    /\ UNCHANGED <<clockVars, envVars, camVars, shipVars, lawVars>>

InputKeyUp ==
    /\ \E code \in KeyCodes : KeyUp(code)
    /\ UNCHANGED <<clockVars, envVars, camVars, shipVars, lawVars>>

InputPointerMove ==
    /\ \E p \in PointerPoints : PointerMove(p)
    /\ UNCHANGED <<clockVars, envVars, camVars, shipVars, lawVars>>

InputNext == InputKeyDown \/ InputKeyUp \/ InputPointerMove

SpecInput == Init /\ [][InputNext]_vars

---------------------------------------------------------------------------
(* Properties of DynamicEnvMap, checked under SpecEnv *)

\* C1 as stated: at every point, also inside a frame callback, at most one
\* generated environment map is alive (produced and not yet disposed).
OneEnvMapAliveAtEveryPoint == Cardinality(aliveMaps) <= 1

\* C1 (amended): between frame callbacks at most one generated environment
\* map is alive, and inside a callback at most two: the new map and the
\* previous one, which lives until the swap at the end of the callback.
EnvMapsAliveBounded ==
    /\ envPc = "idle" => aliveMaps \subseteq {previousEnvMap}
    /\ envPc # "idle" => aliveMaps \subseteq {previousEnvMap, envMap}
    /\ Cardinality(aliveMaps) <= IF envPc = "idle" THEN 1 ELSE 2

TwoMapsInsideCallback ==
    /\ envPc = "applied"
    /\ aliveMaps = {previousEnvMap, envMap}
    /\ previousEnvMap # 0 /\ previousEnvMap # envMap

\* C2: once DynamicEnvMap is unmounted, after any number of frames, every
\* generated map and every PMREM generator has been disposed; and once the
\* cleanup of a replaced generator has run, only the current generator is
\* alive.
UnmountReleasesAll ==
    /\ ~envMounted => aliveMaps = {} /\ alivePmrems = {}
    /\ envMounted /\ pendingCleanup = 0 => alivePmrems = {pmrem}

UnmountedAfterFramesAndRendererChange ==
    /\ ~envMounted
    /\ generated >= 2
    /\ pmremsMade >= 2

\* C10: at the end of every frame callback (and already when the previous
\* map is about to be disposed) the spaceship's standard materials hold the
\* texture of the most recently generated map, and that map is alive.
MaterialHoldsLiveNewestMap ==
    hasStdMaterial /\ (atFrameEnd \/ envPc = "applied") =>
        /\ materialEnvMap = generated
        /\ materialEnvMap \in aliveMaps
        /\ atFrameEnd => previousEnvMap = materialEnvMap

SecondFrameEnded ==
    /\ atFrameEnd /\ hasStdMaterial
    /\ generated >= 2
    /\ materialEnvMap = generated

---------------------------------------------------------------------------
(* Properties of the input handlers, checked under SpecInput *)

\* C3: after any sequence of key events the turbo flag is 0 or 1, is 1
\* exactly when the most recent Space event was a key-down, is 0 when no
\* Space event has occurred, and is left unchanged by every other key.
TurboFollowsSpace ==
    /\ turbo \in {0, 1}
    /\ turbo = 1 <=> lastSpace = "keydown"
    /\ lastSpace = "none" => turbo = 0
    /\ ev.type \in {"keydown", "keyup"} /\ ev.code # "Space" =>
           turbo = ev.turboBefore

SpaceAutoRepeat ==
    /\ ev.type = "keydown" /\ ev.code = "Space"
    /\ ev.turboBefore = 1
    /\ turbo = 1

\* C7: a pointer-move while turbo is 1 leaves mousePoint unchanged, while
\* turbo is 0 it sets mousePoint to (-3, event.y, event.z); so during turbo
\* and right after its release mousePoint is the value it had when turbo
\* was pressed.
SteeringFrozenInTurbo ==
    /\ ev.type = "pointermove" =>
           mousePoint = IF ev.turboBefore = 1 THEN ev.mouseBefore
                        ELSE <<-3 * Scale, ev.y, ev.z>>
    /\ turbo = 1 => mousePoint = pointAtPress
    /\ ev.type = "keyup" /\ ev.code = "Space" /\ ev.turboBefore = 1 =>
           mousePoint = pointAtPress

PointerMoveIgnoredInTurbo ==
    /\ ev.type = "pointermove" /\ ev.turboBefore = 1
    /\ mousePoint[1] = -3 * Scale
    /\ <<ev.y, ev.z>> # <<mousePoint[2], mousePoint[3]>>

---------------------------------------------------------------------------
(* CameraRig with the turbo key: frames run until the camera rests; a key  *)
(* event arrives right after the previous one, MidFlight frames after it,  *)
(* or once the camera rests.                                               *)

\* frames since the last input, counted while the frame changes something
Tick(changed) ==
    sinceInput' = IF changed THEN Min(sinceInput + 1, SettleFrames)
                  ELSE sinceInput

CamInputReady ==
    /\ inputs < MaxCamInputs
    /\ sinceInput = 0 \/ sinceInput = MidFlight \/ CamSettled

CamFrame ==
    /\ CameraRigFrame
    /\ Tick(camVars' # camVars)
    /\ UNCHANGED <<inputVars, inputs, envVars, shipVars, lawVars>>

CamKeyDown ==
    /\ CamInputReady
    /\ KeyDown("Space")
    /\ inputs' = inputs + 1 /\ sinceInput' = 0
    /\ UNCHANGED <<envVars, camVars, shipVars, lawVars>>

CamKeyUp ==
    /\ CamInputReady
    /\ KeyUp("Space")
    /\ inputs' = inputs + 1 /\ sinceInput' = 0
    /\ UNCHANGED <<envVars, camVars, shipVars, lawVars>>

CamNext == CamFrame \/ CamKeyDown \/ CamKeyUp

\* the render loop calls every useFrame callback on every animation frame
SpecCam == Init /\ [][CamNext]_vars /\ WF_vars(CamFrame)

\* distance below which the fixed-point grid no longer resolves a step
CamEpsilon == Scale \div 10000

\* from cur toward target: never farther, never past it, and strictly
\* closer while farther than CamEpsilon
Approaches(cur, next, target) ==
    /\ cur <= target => cur <= next /\ next <= target
    /\ cur >= target => cur >= next /\ next >= target
    /\ Abs(target - cur) > CamEpsilon => Abs(target - next) < Abs(target - cur)

CamStepCloser ==
    /\ \A i \in 1..3 :
           Approaches(camPos[i], CamPosAfter(camPos, turbo)[i], TargetPos(turbo)[i])
    /\ Approaches(camFov, CamFovAfter(camFov, turbo), TargetFov(turbo))

CamNear(t) ==
    /\ \A i \in 1..3 : Abs(TargetPos(t)[i] - camPos[i]) <= CamEpsilon
    /\ Abs(TargetFov(t) - camFov) <= CamEpsilon

\* C8: with the turbo flag held, every CameraRig frame moves each position
\* component and the FOV closer to the active configuration (BASE
\* (-4,4,6)/40 or TURBO (5,1,1)/55) or leaves it there, never past it, and
\* position and FOV end within CamEpsilon of that configuration.
CameraConverges ==
    /\ []CamStepCloser
    /\ <>[](turbo = 1) => <>[]CamNear(1)
    /\ <>[](turbo = 0) => <>[]CamNear(0)

CameraBackAtBase ==
    /\ turbo = 0 /\ inputs = 2 /\ ev.turboBefore = 1
    /\ CamNear(0) /\ camPos # basePosition
    /\ camLook = baseLookAt

---------------------------------------------------------------------------
(* SpaceshipController with its inputs: frames run until the ship rests;   *)
(* an input event arrives MidFlight frames after the previous one or once  *)
(* the ship rests.                                                         *)

ShipInputReady ==
    /\ inputs < MaxInputs
    /\ sinceInput = MidFlight \/ ShipSettled

ShipFrame ==
    /\ SpaceshipControllerFrame
    /\ Tick(shipVars' # shipVars)
    /\ UNCHANGED <<inputVars, inputs, envVars, camVars, lawVars>>

ShipKeyDown ==
    /\ ShipInputReady
    /\ KeyDown("Space")
    /\ inputs' = inputs + 1 /\ sinceInput' = 0
    /\ UNCHANGED <<envVars, camVars, shipVars, lawVars>>

ShipKeyUp ==
    /\ ShipInputReady
    /\ KeyUp("Space")
    /\ inputs' = inputs + 1 /\ sinceInput' = 0
    /\ UNCHANGED <<envVars, camVars, shipVars, lawVars>>

ShipPointerMove ==
    /\ ShipInputReady
    /\ \E p \in PointerPoints : PointerMove(p)
    /\ inputs' = inputs + 1 /\ sinceInput' = 0
    /\ UNCHANGED <<envVars, camVars, shipVars, lawVars>>

ShipNext == ShipFrame \/ ShipKeyDown \/ ShipKeyUp \/ ShipPointerMove

\* the render loop calls every useFrame callback on every animation frame
SpecShip == Init /\ [][ShipNext]_vars /\ WF_vars(ShipFrame)

---------------------------------------------------------------------------
(* Properties of SpaceshipController, checked under SpecShip *)

\* C5: on every frame the rotation applied to the entity has yaw (Z)
\* within [-45 deg, 45 deg] and pitch (X) within [-30 deg, 30 deg],
\* whatever the springs' unclamped values.
AppliedRotationBounded ==
    /\ -(Pi \div 4) <= rotation[3] /\ rotation[3] <= Pi \div 4
    /\ -(Pi \div 6) <= rotation[1] /\ rotation[1] <= Pi \div 6
    /\ fed.n > 0 => rotation[3] = angleZ /\ rotation[2] = -(Pi \div 2)

PitchClampedWhileSpringBeyond ==
    /\ fed.n > 0
    /\ pitchAngle < -(Pi \div 6)
    /\ rotation[1] = -(Pi \div 6)
    /\ rotation[3] < -(Pi \div 4) + Scale \div 1000

ShipEpsilon == Scale \div 1000

ShipCentered ==
    /\ Abs(translateY) <= ShipEpsilon /\ Abs(positionY) <= ShipEpsilon
    /\ Abs(angleZ) <= ShipEpsilon
    /\ Abs(pitchAngle) <= ShipEpsilon

TurboFrameFedZero ==
    fed.n > 0 /\ fed.turbo = 1 => fed.y = 0 /\ fed.yaw = 0 /\ fed.pitch = 0

ManualFrameFedPointer ==
    fed.n > 0 /\ fed.turbo = 0 =>
        /\ fed.y = Clamp(-3 * Scale, 1 * Scale, fed.mouse[2])
        /\ fed.pitch = TDiv(fed.mouse[3], 2)
        /\ fed.yaw = Clamp(-(Pi \div 4), Pi \div 4, fed.angle)

TurboHeldSettles ==
    turbo = 1 /\ fed.n > 0 /\ fed.turbo = 1 =>
        /\ sinceInput = SettleFrames => ShipSettled
        /\ ShipSettled => ShipCentered

ManualAgainAfterTurbo ==
    /\ fed.n > 0 /\ fed.turbo = 0
    /\ ev.type = "keyup" /\ ev.turboBefore = 1
    /\ fed.mouse[2] > 1 * Scale /\ fed.y = 1 * Scale
    /\ fed.yaw # 0 /\ fed.pitch # 0

---------------------------------------------------------------------------
(* The integrator beside two reference laws, over a few frames *)

Quantities == {"y", "yaw", "pitch"}

\* spring constant 1 / KDen and damping DampNum / 20 of each quantity:
\* lines 139-141, 145, 149, 174 and 153, 156, 176
KDen(q, t) == IF q = "y" /\ t = 0 THEN 500 ELSE 100

DampNum(q) == IF q = "y" THEN 19 ELSE IF q = "pitch" THEN 17 ELSE 15

Fed(q, f) == IF q = "y" THEN f.y ELSE IF q = "yaw" THEN f.yaw ELSE f.pitch

\* the law of the specification: accel += (target - value) * k;
\* vel = (vel + accel) * damping; value += vel
OrigSpring(s, target, kDen, dNum) ==
    LET accel == s.accel + Mul(target - s.value, 1, kDen)
        vel == Mul(s.vel + accel, dNum, 20)
    IN  [value |-> s.value + vel, accel |-> accel, vel |-> vel]

\* one rate per quantity: rate = (rate + (target - value) * k) * damping;
\* value += rate
RefSpring(s, target, kDen, dNum) ==
    LET rate == Mul(s.rate + Mul(target - s.value, 1, kDen), dNum, 20)
    IN  [value |-> s.value + rate, rate |-> rate]

LawFrame ==
    /\ lawFrames < MaxLawFrames
    /\ SpaceshipControllerFrame
    /\ lawFrames' = lawFrames + 1
    /\ ref' = [q \in Quantities |->
                  RefSpring(ref[q], Fed(q, fed'), KDen(q, turbo), DampNum(q))]
    /\ orig' = [q \in Quantities |->
                  OrigSpring(orig[q], Fed(q, fed'), KDen(q, turbo), DampNum(q))]
    /\ UNCHANGED <<inputVars, clockVars, envVars, camVars>>

LawKeyDown ==
    /\ inputs < MaxLawInputs
    /\ KeyDown("Space")
    /\ inputs' = inputs + 1
    /\ UNCHANGED <<sinceInput, envVars, camVars, shipVars, lawVars>>

LawKeyUp ==
    /\ inputs < MaxLawInputs
    /\ KeyUp("Space")
    /\ inputs' = inputs + 1
    /\ UNCHANGED <<sinceInput, envVars, camVars, shipVars, lawVars>>

LawPointerMove ==
    /\ inputs < MaxLawInputs
    /\ \E p \in PointerPoints : PointerMove(p)
    /\ inputs' = inputs + 1
    /\ UNCHANGED <<sinceInput, envVars, camVars, shipVars, lawVars>>

LawNext == LawFrame \/ LawKeyDown \/ LawKeyUp \/ LawPointerMove

SpecLaw == Init /\ [][LawNext]_vars

\* C4 as stated: translateY, yaw and pitch follow accel += (target - value)
\* * k; vel = (vel + accel) * damping; value += vel, with separate
\* acceleration and velocity state, from the same start and targets.
FollowsAccelVelocityLaw ==
    /\ orig["y"].value = translateY
    /\ orig["yaw"].value = angleZ
    /\ orig["pitch"].value = pitchAngle

\* C4 (amended): translateY, yaw and pitch follow rate = (rate + (target -
\* value) * k) * damping; value += rate, with one rate state per quantity
\* (the ref the code names acceleration), in manual and turbo mode alike;
\* the modes differ in the target and, for translateY, in k.
FollowsSingleRateLaw ==
    /\ ref["y"] = [value |-> translateY, rate |-> translateAcceleration]
    /\ ref["yaw"] = [value |-> angleZ, rate |-> angleAcceleration]
    /\ ref["pitch"] = [value |-> pitchAngle, rate |-> pitchAcceleration]

SteeredThenTurboFrames ==
    /\ lawFrames = MaxLawFrames
    /\ fed.turbo = 1
    /\ translateY # 0 /\ angleZ # 0 /\ pitchAngle # 0

===========================================================================
